---- MODULE Spec2Model ----
(***************************************************************************)
(* Model of app/models.py of PhotoScout/API: the Guide helpers             *)
(* (getFeaturedLocation, getFeaturedImage, getNumberPhoto) over the        *)
(* photo_guide collection of one guide, and User.verify_auth_token.        *)
(*                                                                         *)
(* Python floats are modelled as binary floating-point numbers m * 2^e     *)
(* with a MantBits-bit mantissa and round-half-even after every            *)
(* operation (IEEE-754 double has 53 bits; the exponent range is never     *)
(* exhausted by this code, so exponents are unbounded integers).           *)
(***************************************************************************)
EXTENDS Integers, Sequences, FiniteSets, TLC

\* ------------------------------------------------------------------ bounds
\* mantissa width of the modelled float
MantBits == 10
\* largest number of photo_guide rows of the guide
MaxPhotos == 3
\* the mean vector counts as well-conditioned when its length is >= 2^-CondExp
CondExp == 3
\* number of concurrent helper calls in the threaded specifications
NumCalls == 2
\* the clock of the token lifetime runs from 0 to MaxTime
MaxTime == 2
\* ids the users table can hold
NumUsers == 2
\* tokens handed out and still in circulation
MaxIssued == 1

\* ------------------------------------------------------------------ floats
Float(m, e) == [m |-> m, e |-> e]
FZero == Float(0, 0)
Abs(n) == IF n < 0 THEN -n ELSE n
Sign(n) == IF n < 0 THEN -1 ELSE 1

RECURSIVE BitLen(_)
\* the number of binary digits of n >= 0
BitLen(n) ==
    IF n >= 65536 THEN 16 + BitLen(n \div 65536)
    ELSE IF n >= 256 THEN 8 + BitLen(n \div 256)
    ELSE IF n >= 16 THEN 4 + BitLen(n \div 16)
    ELSE IF n >= 2 THEN 1 + BitLen(n \div 2)
    ELSE n

\* m * 2^e rounded to MantBits bits, ties to even; the mantissa is normalised
Norm(m, e) ==
    LET a == Abs(m)
        L == BitLen(a)
        k == L - MantBits
        q == a \div (2 ^ k)
        r == a % (2 ^ k)
        half == 2 ^ (k - 1)
        q2 == IF r > half \/ (r = half /\ q % 2 = 1) THEN q + 1 ELSE q
    IN  IF a = 0 THEN FZero
        ELSE IF k <= 0 THEN Float(Sign(m) * a * (2 ^ (-k)), e + k)
        ELSE IF q2 = 2 ^ MantBits THEN Float(Sign(m) * (2 ^ (MantBits - 1)), e + k + 1)
        ELSE Float(Sign(m) * q2, e + k)

FNeg(a) == Float(-a.m, a.e)
FAbs(a) == Float(Abs(a.m), a.e)

\* float + float: the exact sum, rounded once. An addend more than
\* MantBits + 1 binary places below the other is below a quarter ulp of it.
FAdd(a, b) ==
    IF a.m = 0 THEN b
    ELSE IF b.m = 0 THEN a
    ELSE LET hi == IF a.e >= b.e THEN a ELSE b
             lo == IF a.e >= b.e THEN b ELSE a
             d == hi.e - lo.e
         IN  IF d > MantBits + 1 THEN hi
             ELSE Norm(hi.m * (2 ^ d) + lo.m, lo.e)

\* float * float: the exact product, rounded once
FMul(a, b) == Norm(a.m * b.m, a.e + b.e)

\* float / int (the int is the positive photo count): the quotient carried to
\* MantBits + 6 places with a sticky bit for the remainder, rounded once
FDivInt(a, n) ==
    LET num == Abs(a.m) * 64
        q == num \div n
        sticky == IF num % n = 0 THEN 0 ELSE 1
    IN  Norm(Sign(a.m) * (2 * q + sticky), a.e - 7)

RECURSIVE ISqrtBits(_, _, _)
\* floor(sqrt(v)) by deciding the bits of the root from bit b downwards
ISqrtBits(v, r, b) ==
    IF b < 0 THEN r
    ELSE LET t == r + 2 ^ b
         IN  ISqrtBits(v, IF t * t <= v THEN t ELSE r, b - 1)

\* math.sqrt of a float >= 0: the root of the mantissa scaled to
\* 2 * MantBits + 2 bits (even exponent), with a sticky bit, rounded once
FSqrt(a) ==
    IF a.m = 0 THEN FZero
    ELSE LET s0 == MantBits + 2
             s == IF (a.e - s0) % 2 = 0 THEN s0 ELSE s0 + 1
             v == a.m * (2 ^ s)
             r == ISqrtBits(v, 0, MantBits + 2)
             sticky == IF r * r = v THEN 0 ELSE 1
         IN  Norm(2 * r + sticky, ((a.e - s) \div 2) - 1)

\* a <= b on floats (normalised mantissas compare by exponent, then mantissa)
MagLe(a, b) == a.m = 0 \/ (b.m # 0 /\ (a.e < b.e \/ (a.e = b.e /\ a.m <= b.m)))
FLe(a, b) ==
    IF a.m < 0 /\ b.m >= 0 THEN TRUE
    ELSE IF a.m >= 0 /\ b.m < 0 THEN FALSE
    ELSE IF a.m >= 0 THEN MagLe(a, b)
    ELSE MagLe(FNeg(b), FNeg(a))

\* ------------------------------------------------------------------ math
\* SQL NULL / Python None in a nullable String column
None == "NULL"

\* if <column value>: None and the empty string are falsy, any other string truthy
Truthy(s) == s # None /\ s # ""

\* float(s) of a column value: the number of degrees a validated decimal string
\* denotes; float(None) raises TypeError, float("") raises ValueError
FloatRaises(s) == IF s = None THEN "TypeError" ELSE IF s = "" THEN "ValueError" ELSE ""
float(s) ==
    CASE s = "0" -> 0
      [] s = "90" -> 90
      [] s = "-45" -> -45
      [] s = "180" -> 180
      [] s = "-180" -> -180
      [] s = "-120" -> -120

\* cos(radians(d)): the IEEE double math.cos returns at radians(d), given to 20
\* bits and rounded to MantBits. radians(90) lies just below pi/2, so cos is a
\* tiny positive number there, not 0.
CosTable ==
    [d \in {0, 90, -45, 180, -180, -120} |->
        CASE d = 0 -> Norm(524288, -19)
          [] d = 90 -> Norm(578323, -73)
          [] d = -45 -> Norm(741455, -20)
          [] d = 180 -> Norm(-524288, -19)
          [] d = -180 -> Norm(-524288, -19)
          [] d = -120 -> Norm(-524288, -20)]
CosDeg(d) == CosTable[d]

\* sin(radians(d)), likewise; radians(180) lies just below pi
SinTable ==
    [d \in {0, 90, -45, 180, -180, -120} |->
        CASE d = 0 -> FZero
          [] d = 90 -> Norm(524288, -19)
          [] d = -45 -> Norm(-741455, -20)
          [] d = 180 -> Norm(578323, -72)
          [] d = -180 -> Norm(-578323, -72)
          [] d = -120 -> Norm(-908093, -20)]
SinDeg(d) == SinTable[d]

\* cos and sin of the angles 7.5, 22.5, ..., 82.5 degrees that separate the
\* values Atan2Deg reports in the first quadrant
Boundaries ==
    << [cos |-> Norm(1039605, -20), sin |-> Norm(547467, -22)],
       [cos |-> Norm(968758, -20),  sin |-> Norm(802545, -21)],
       [cos |-> Norm(831891, -20),  sin |-> Norm(638333, -20)],
       [cos |-> Norm(638333, -20),  sin |-> Norm(831891, -20)],
       [cos |-> Norm(802545, -21),  sin |-> Norm(968758, -20)],
       [cos |-> Norm(547467, -22),  sin |-> Norm(1039605, -20)] >>
AngleStep == 90 \div Len(Boundaries)

RECURSIVE StepsBelow(_, _, _)
\* how many of the boundary angles from the j-th on lie at or below the
\* direction (ax, ay) of the first quadrant: tan(boundary) <= ay / ax
StepsBelow(ay, ax, j) ==
    IF j > Len(Boundaries) THEN 0
    ELSE IF FLe(FMul(ax, Boundaries[j].sin), FMul(ay, Boundaries[j].cos))
         THEN 1 + StepsBelow(ay, ax, j + 1)
         ELSE 0

\* degrees(atan2(y, x)) reported to the nearest multiple of AngleStep, in
\* [-180, 180]; atan2(0, 0) = 0, atan2(+0, x < 0) = pi. The sums start from
\* the int 0, so neither argument is ever -0.0.
Atan2Deg(y, x) ==
    IF x.m = 0 /\ y.m = 0 THEN 0
    ELSE LET a == AngleStep * StepsBelow(FAbs(y), FAbs(x), 1)
         IN  IF x.m >= 0 THEN (IF y.m >= 0 THEN a ELSE -a)
             ELSE (IF y.m >= 0 THEN 180 - a ELSE a - 180)

\* ------------------------------------------------------------------ Guide.getFeaturedLocation
\* the locals x, y, z, size (and the exception raised, "" for none)
Locals(x, y, z, size, exc) == [x |-> x, y |-> y, z |-> z, size |-> size, exc |-> exc]

\* the test that lets a photo into the average
HasLatitude(photo) == Truthy(photo.latitude)

\* mutant: size += 1 outside the "if photo.latitude" block
LoopBody_CountsEveryPhoto(acc, photo) ==
    IF ~HasLatitude(photo) THEN [acc EXCEPT !.size = @ + 1]
    ELSE IF FloatRaises(photo.longitude) # "" THEN [acc EXCEPT !.exc = FloatRaises(photo.longitude)]
    ELSE LET lat == float(photo.latitude)
             lon == float(photo.longitude)
         IN  Locals(FAdd(acc.x, FMul(CosDeg(lat), CosDeg(lon))),
                    FAdd(acc.y, FMul(CosDeg(lat), SinDeg(lon))),
                    FAdd(acc.z, SinDeg(lat)),
                    acc.size + 1, "")

\* mutant: "=" for "+=", the sums keep the last photo only
LoopBody_Overwrites(acc, photo) ==
    IF ~HasLatitude(photo) THEN acc
    ELSE IF FloatRaises(photo.longitude) # "" THEN [acc EXCEPT !.exc = FloatRaises(photo.longitude)]
    ELSE LET lat == float(photo.latitude)
             lon == float(photo.longitude)
         IN  Locals(FMul(CosDeg(lat), CosDeg(lon)),
                    FMul(CosDeg(lat), SinDeg(lon)),
                    SinDeg(lat),
                    acc.size + 1, "")

\* one pass of the body of "for photo in photos"
LoopBody(acc, photo) ==
    IF ~HasLatitude(photo) THEN acc
    ELSE IF FloatRaises(photo.latitude) # "" THEN [acc EXCEPT !.exc = FloatRaises(photo.latitude)]
    ELSE IF FloatRaises(photo.longitude) # "" THEN [acc EXCEPT !.exc = FloatRaises(photo.longitude)]
    ELSE LET lat == float(photo.latitude)
             lon == float(photo.longitude)
         IN  Locals(FAdd(acc.x, FMul(CosDeg(lat), CosDeg(lon))),
                    FAdd(acc.y, FMul(CosDeg(lat), SinDeg(lon))),
                    FAdd(acc.z, SinDeg(lat)),
                    acc.size + 1, "")

RECURSIVE Loop(_, _, _)
\* the for loop from photo i on; an exception ends it
Loop(photos, i, acc) ==
    IF i > Len(photos) \/ acc.exc # "" THEN acc
    ELSE Loop(photos, i + 1, LoopBody(acc, photos[i]))

Accumulate(photos) == Loop(photos, 1, Locals(FZero, FZero, FZero, 0, ""))

RetNone == [kind |-> "None"]
Raise(exc) == [kind |-> "raise", exc |-> exc]
Location(lat, lon) == [kind |-> "location", latitude |-> lat, longitude |-> lon]

\* the mean vector and its conversion back to degrees
MeanVector(acc) ==
    [x |-> FDivInt(acc.x, acc.size), y |-> FDivInt(acc.y, acc.size), z |-> FDivInt(acc.z, acc.size)]
Horizontal(v) == FSqrt(FAdd(FMul(v.x, v.x), FMul(v.y, v.y)))
ToLocation(v) == Location(Atan2Deg(v.z, Horizontal(v)), Atan2Deg(v.y, v.x))

\* mutant: the "if size is 0" guard answers with the default point (0, 0)
getFeaturedLocation_DefaultPoint(photos) ==
    LET acc == Accumulate(photos)
    IN  IF acc.exc # "" THEN Raise(acc.exc)
        ELSE IF acc.size = 0 THEN Location(0, 0)
        ELSE ToLocation(MeanVector(acc))

\* "size is 0" compares identity; CPython shares the small ints, so it is size == 0
getFeaturedLocation(photos) ==
    LET acc == Accumulate(photos)
    IN  IF acc.exc # "" THEN Raise(acc.exc)
        ELSE IF acc.size = 0 THEN RetNone
        ELSE ToLocation(MeanVector(acc))

\* ------------------------------------------------------------------ state
VARIABLES
    photos,   \* guide.photos: the Photo rows linked to the guide, in query order
    op,       \* sequential calls: the helper called last ("" before any call)
    ret,      \* sequential calls: what that call returned or raised
    locals,   \* sequential calls: x, y, z, size when getFeaturedLocation ended
    pc,       \* threaded calls: where each call stands
    helper,   \* threaded calls: the helper each call runs
    res,      \* threaded calls: what each finished call returned or raised
    now,      \* the clock itsdangerous reads
    users,    \* ids of the rows of the users table
    issued,   \* tokens generate_auth_token has handed out
    authRet   \* the token verify_auth_token was given last, and its outcome

guideVars == <<photos, op, ret, locals>>
callVars == <<pc, helper, res>>
authVars == <<now, users, issued, authRet>>
vars == <<photos, op, ret, locals, pc, helper, res, now, users, issued, authRet>>

\* column values of Photo.latitude / Photo.longitude / Photo.url (all nullable)
Latitudes == {None, "90", "-45"}
Longitudes == {None, "0", "180", "-180"}
Urls == {None, "a.jpg", "b.jpg"}
Photo(url, lat, lon) == [url |-> url, latitude |-> lat, longitude |-> lon]

\* every collection of at most MaxPhotos rows drawn from R, in every order
Collections(R) == UNION {[1..n -> R] : n \in 0..MaxPhotos}

NoLocals == Locals(FZero, FZero, FZero, 0, "")
Calls == 1..NumCalls

GuideIdle == op = "" /\ ret = RetNone /\ locals = NoLocals
CallsIdle ==
    /\ pc = [c \in Calls |-> "idle"]
    /\ helper = [c \in Calls |-> ""]
    /\ res = [c \in Calls |-> RetNone]
AuthIdle == now = 0 /\ users = {} /\ issued = {} /\ authRet = [called |-> FALSE]

\* ------------------------------------------------------------------ sequential calls of getFeaturedLocation
LocationRows == {Photo("a.jpg", lat, lon) : lat \in Latitudes, lon \in Longitudes}

InitLocation ==
    /\ photos \in Collections(LocationRows)
    /\ GuideIdle /\ CallsIdle /\ AuthIdle

\* Guide.getFeaturedLocation(guide): photos = guide.photos.all(), then the loop
GetFeaturedLocation ==
    /\ op' = "getFeaturedLocation"
    /\ ret' = getFeaturedLocation(photos)
    /\ locals' = Accumulate(photos)
    /\ UNCHANGED <<photos, callVars, authVars>>

NextLocation == GetFeaturedLocation
SpecLocation == InitLocation /\ [][NextLocation]_vars

\* ------------------------------------------------------------------ properties of getFeaturedLocation
\* a photo carries a point when both columns are set, none when both are NULL
PresentCoordinates(photo) == photo.latitude # None /\ photo.longitude # None
AbsentCoordinates(photo) == photo.latitude = None /\ photo.longitude = None
NotAbsentCoordinates(photo) == ~AbsentCoordinates(photo)
\* a latitude without a longitude: the row float(photo.longitude) fails on
LatitudeOnly(photo) == photo.latitude # None /\ photo.longitude = None

Range(s) == {s[i] : i \in 1..Len(s)}
Called == op = "getFeaturedLocation"

\* the tolerance of a comparison of two reported angles: one reporting step
Tolerance == AngleStep
Close(a, b) == Abs(a - b) <= Tolerance
CloseMod360(a, b) == Close(a, b) \/ Abs(a - b) >= 360 - Tolerance

\* the orders n rows can come in
PermsTable == [n \in 0..(MaxPhotos + 1) |->
                  {f \in [1..n -> 1..n] : \A i, j \in 1..n : f[i] = f[j] => i = j}]
Perms(n) == PermsTable[n]
Permute(s, f) == [i \in 1..Len(s) |-> s[f[i]]]
InsertAt(s, i, e) == SubSeq(s, 1, i - 1) \o <<e>> \o SubSeq(s, i, Len(s))

\* C1: a guide with no photo, or only photos whose coordinates are absent,
\* gets None from getFeaturedLocation, never a default point such as (0, 0).
C1_NoneWithoutCoordinates ==
    (Called /\ \A p \in Range(photos) : AbsentCoordinates(p)) => ret = RetNone
C1_Witness ==
    Called /\ Len(photos) >= 2 /\ (\A p \in Range(photos) : AbsentCoordinates(p)) /\ ret = RetNone

\* C2: getFeaturedLocation never raises, whatever mix of set and NULL latitudes
\* and longitudes the photos carry.
C2_NeverRaises == Called => ret.kind # "raise"

SameWithinTolerance(r1, r2) ==
    /\ r1.kind = r2.kind
    /\ r1.kind = "raise" => r1 = r2
    /\ r1.kind = "location" =>
           Close(r1.latitude, r2.latitude) /\ Close(r1.longitude, r2.longitude)

\* C4 as claimed: whatever order the photos come in, the outcome is the same
\* within tolerance.
C4_OrderIndependent ==
    Called => \A f \in Perms(Len(photos)) :
                  SameWithinTolerance(ret, getFeaturedLocation(Permute(photos, f)))

\* the mean vector is clear of the zero vector / of the polar axis
MinLength == Norm(1, -CondExp)
HorizontalClear(acc) == FLe(MinLength, Horizontal(MeanVector(acc)))
LengthClear(acc) == HorizontalClear(acc) \/ FLe(MinLength, FAbs(MeanVector(acc).z))

\* C4 amended: every order gives the same kind of outcome; the latitudes agree
\* within tolerance when the mean vector is clear of zero, the longitudes
\* agree within tolerance modulo 360 when its horizontal part is clear of zero.
C4_OrderIndependentWhenClear ==
    Called =>
        LET latitudeSettled == ret.kind = "location" /\ LengthClear(locals)
            longitudeSettled == ret.kind = "location" /\ HorizontalClear(locals)
        IN  \A f \in Perms(Len(photos)) :
            \A r \in {getFeaturedLocation(Permute(photos, f))} :
                /\ r.kind = ret.kind
                /\ ret.kind = "raise" => r = ret
                /\ latitudeSettled => Close(r.latitude, ret.latitude)
                /\ longitudeSettled => CloseMod360(r.longitude, ret.longitude)
C4_Witness ==
    /\ Called /\ Len(photos) = 3 /\ ret.kind = "location" /\ HorizontalClear(locals)
    /\ \E f \in Perms(3) : Permute(photos, f) # photos
    /\ Cardinality(Range(photos)) = 3

\* the photos that carry a point all carry the point (lat, lon)
AllAt(lat, lon) ==
    /\ \E p \in Range(photos) : PresentCoordinates(p)
    /\ \A p \in Range(photos) : PresentCoordinates(p) => p.latitude = lat /\ p.longitude = lon

\* C5: when every photo with coordinates carries the same point, that point
\* is what getFeaturedLocation returns, within tolerance.
C5_SamePointReturned ==
    Called => \A lat \in Latitudes \ {None}, lon \in Longitudes \ {None} :
        AllAt(lat, lon) =>
            /\ ret.kind = "location"
            /\ Close(ret.latitude, float(lat)) /\ Close(ret.longitude, float(lon))

\* C8: one photo with coordinates is enough for a location with a latitude and
\* a longitude; a mean vector that cancels is not answered with None.
C8_LocationWheneverAPoint ==
    (Called /\ \E p \in Range(photos) : PresentCoordinates(p)) =>
        ret.kind = "location" /\ DOMAIN ret = {"kind", "latitude", "longitude"}

\* C5 and C8 on the collections in which no photo has a latitude without a
\* longitude (the rows C2 fails on)
NoLatitudeOnly == \A p \in Range(photos) : ~LatitudeOnly(p)
SamePointReturnedWithoutLatitudeOnly == NoLatitudeOnly => C5_SamePointReturned
LocationWheneverAPointWithoutLatitudeOnly == NoLatitudeOnly => C8_LocationWheneverAPoint
NeverRaisesWithoutLatitudeOnly == NoLatitudeOnly => C2_NeverRaises

\* ------------------------------------------------------------------ Guide.getFeaturedImage, Guide.getNumberPhoto
\* what guide.photos.first() gives when the guide has no photo
NoRow == [none |-> TRUE]

\* mutant: the last row instead of the first
first_TakesLast(rows) == IF Len(rows) = 0 THEN NoRow ELSE rows[Len(rows)]

\* guide.photos.first(): the first row of the query, or None
first(rows) == IF Len(rows) = 0 THEN NoRow ELSE rows[1]

\* a returned column value: None for NULL, the string otherwise
Returned(v) == IF v = None THEN RetNone ELSE [kind |-> "url", url |-> v]

\* "return guide.photos.first().url" on the row the second query gave
UrlOf(row) == IF row = NoRow THEN Raise("AttributeError") ELSE Returned(row.url)

\* getFeaturedImage when both queries see the same rows
getFeaturedImage(rows) == IF first(rows) = NoRow THEN RetNone ELSE UrlOf(first(rows))

\* len(guide.photos.all())
getNumberPhoto(rows) == [kind |-> "count", count |-> Len(rows)]

\* the rows of the threaded specifications: a photo with coordinates for
\* every value of the url column, and one photo without coordinates
CallRows == {Photo(url, "90", "0") : url \in Urls} \cup {Photo("a.jpg", None, None)}

InitCalls ==
    /\ photos \in Collections(CallRows)
    /\ GuideIdle /\ CallsIdle /\ AuthIdle

Finish(c, h, r) ==
    /\ pc' = [pc EXCEPT ![c] = "done"]
    /\ helper' = [helper EXCEPT ![c] = h]
    /\ res' = [res EXCEPT ![c] = r]

\* a call of getFeaturedLocation: one query, then local computation
CallGetFeaturedLocation(c) ==
    /\ pc[c] = "idle"
    /\ Finish(c, "getFeaturedLocation", getFeaturedLocation(photos))
    /\ UNCHANGED <<photos, op, ret, locals, authVars>>

\* mutant: the count is taken by popping the rows off the relationship
CallGetNumberPhoto_Consumes(c) ==
    /\ pc[c] = "idle"
    /\ Finish(c, "getNumberPhoto", getNumberPhoto(photos))
    /\ photos' = <<>>
    /\ UNCHANGED <<op, ret, locals, authVars>>

\* a call of getNumberPhoto: one query
CallGetNumberPhoto(c) ==
    /\ pc[c] = "idle"
    /\ Finish(c, "getNumberPhoto", getNumberPhoto(photos))
    /\ UNCHANGED <<photos, op, ret, locals, authVars>>

\* getFeaturedImage, "if guide.photos.first():" - the first query. A Photo
\* row is truthy, None is not.
ImageFirst(c) ==
    /\ pc[c] = "idle"
    /\ IF first(photos) = NoRow
       THEN Finish(c, "getFeaturedImage", RetNone)
       ELSE /\ pc' = [pc EXCEPT ![c] = "second"]
            /\ helper' = [helper EXCEPT ![c] = "getFeaturedImage"]
            /\ res' = res
    /\ UNCHANGED <<photos, op, ret, locals, authVars>>

\* getFeaturedImage, "return guide.photos.first().url" - the second query
ImageSecond(c) ==
    /\ pc[c] = "second"
    /\ Finish(c, "getFeaturedImage", UrlOf(first(photos)))
    /\ UNCHANGED <<photos, op, ret, locals, authVars>>

\* the caller takes the result; the thread is free for the next call
Return(c) ==
    /\ pc[c] = "done"
    /\ pc' = [pc EXCEPT ![c] = "idle"]
    /\ helper' = [helper EXCEPT ![c] = ""]
    /\ res' = [res EXCEPT ![c] = RetNone]
    /\ UNCHANGED <<photos, op, ret, locals, authVars>>

\* another session links a photo to the guide (a row of photo_guide)
LinkPhoto(p) ==
    /\ Len(photos) < MaxPhotos
    /\ photos' = Append(photos, p)
    /\ UNCHANGED <<pc, helper, res, op, ret, locals, authVars>>

\* another session unlinks the i-th photo of the guide
UnlinkPhoto(i) ==
    /\ i \in 1..Len(photos)
    /\ photos' = SubSeq(photos, 1, i - 1) \o SubSeq(photos, i + 1, Len(photos))
    /\ UNCHANGED <<pc, helper, res, op, ret, locals, authVars>>

Reader(c) ==
    \/ CallGetFeaturedLocation(c)
    \/ CallGetNumberPhoto(c)
    \/ ImageFirst(c)
    \/ ImageSecond(c)
    \/ Return(c)

\* concurrent helper calls, nobody writing
NextReaders == \E c \in Calls : Reader(c)
SpecReaders == InitCalls /\ [][NextReaders]_vars

\* concurrent helper calls and a writer session
Next ==
    \/ \E c \in Calls : Reader(c)
    \/ \E p \in CallRows : LinkPhoto(p)
    \/ \E i \in 1..MaxPhotos : UnlinkPhoto(i)
Spec == InitCalls /\ [][Next]_vars

\* a finished call of getFeaturedImage
ImageDone(c) == pc[c] = "done" /\ helper[c] = "getFeaturedImage"

\* C6 as claimed: with one photo or more, getFeaturedImage returns the URL of
\* the first photo of the collection; it returns None exactly when the guide
\* has no photo.
C6_FirstUrlOrNoneIffEmpty ==
    \A c \in Calls : ImageDone(c) =>
        /\ Len(photos) >= 1 => res[c] = [kind |-> "url", url |-> photos[1].url]
        /\ res[c] = RetNone <=> Len(photos) = 0

\* C6 amended: with one photo or more, getFeaturedImage returns the url column
\* of the first photo, which is None when that column is NULL; it returns None
\* when the guide has no photo.
C6_FirstUrlColumn ==
    \A c \in Calls : ImageDone(c) =>
        /\ Len(photos) >= 1 => res[c] = Returned(photos[1].url)
        /\ Len(photos) = 0 => res[c] = RetNone
        /\ res[c] = RetNone <=> (Len(photos) = 0 \/ photos[1].url = None)
C6_Witness ==
    \E c \in Calls :
        /\ ImageDone(c) /\ Len(photos) >= 2 /\ photos[1].url # photos[2].url
        /\ res[c] = [kind |-> "url", url |-> photos[1].url]

\* what a helper returns when it runs alone on the rows
Alone(h, rows) ==
    CASE h = "getFeaturedLocation" -> getFeaturedLocation(rows)
      [] h = "getFeaturedImage" -> getFeaturedImage(rows)
      [] h = "getNumberPhoto" -> getNumberPhoto(rows)

\* C7: the helpers only read: no step of a helper call changes the guide's
\* photos, and every call that finishes, however the calls interleave,
\* returns what the helper returns when run alone on those photos.
C7_PureReaders ==
    [][/\ photos' = photos
       /\ \A c \in Calls : pc'[c] = "done" => res'[c] = Alone(helper'[c], photos')]_vars
C7_Witness ==
    /\ \A c \in Calls : pc[c] = "done"
    /\ \E c, d \in Calls : helper[c] = "getFeaturedImage" /\ helper[d] = "getNumberPhoto"
    /\ Len(photos) >= 1

\* C10: with a writer linking and unlinking photos meanwhile, a call of
\* getFeaturedImage still ends without an exception, with None or the URL of
\* a photo linked to the guide at a moment of the call (that of its last query).
C10_ImageSafeUnderWriter ==
    [][\A c \in Calls :
          (pc[c] # "done" /\ pc'[c] = "done" /\ helper'[c] = "getFeaturedImage") =>
              /\ res'[c].kind # "raise"
              /\ res'[c].kind = "url" => \E p \in Range(photos) : p.url = res'[c].url]_vars

\* C10 without the exception: a URL returned is that of a photo linked when
\* the call made its last query
ImageUrlWasLinked ==
    [][\A c \in Calls :
          (pc[c] # "done" /\ pc'[c] = "done" /\ helper'[c] = "getFeaturedImage"
              /\ res'[c].kind = "url") => \E p \in Range(photos) : p.url = res'[c].url]_vars

\* ------------------------------------------------------------------ User.verify_auth_token
\* app.config['JWT_TOKEN_EXPIRATION'], in ticks of the clock
JWT_TOKEN_EXPIRATION == 1

UserIds == 1..NumUsers

\* what a client can send: nothing (None), the empty string, or a JWS with a
\* payload id, an expiry in its header and a signature that verifies or not
NoToken == [kind |-> "None"]
EmptyToken == [kind |-> "empty"]
Jws(id, exp, sig) == [kind |-> "jws", id |-> id, exp |-> exp, sig |-> sig]
ForgedTokens == {Jws(id, exp, "forged") : id \in UserIds, exp \in 0..(MaxTime + JWT_TOKEN_EXPIRATION)}

\* user.generate_auth_token(): {'id': self.id} signed with API_SECRET_KEY,
\* expiring JWT_TOKEN_EXPIRATION after the time t of issue
generate_auth_token(id, t) == Jws(id, t + JWT_TOKEN_EXPIRATION, "valid")

\* Serializer(API_SECRET_KEY).loads(token) at time t: the signature is checked
\* first, then the expiry of the header; otherwise the payload
loads(token, t) ==
    IF token.sig # "valid" THEN [exc |-> "BadSignature"]
    ELSE IF token.exp < t THEN [exc |-> "SignatureExpired"]
    ELSE [exc |-> "", data |-> [id |-> token.id]]

\* itsdangerous: SignatureExpired is a BadTimeSignature, which is a BadSignature
IsInstance(exc, class) == exc = class \/ (exc = "SignatureExpired" /\ class = "BadSignature")

\* mutant: the two except clauses in the other order
ExceptClauses_BadSignatureFirst ==
    << [catches |-> "BadSignature", raises |-> "BadSignatureToken"],
       [catches |-> "SignatureExpired", raises |-> "ExpiredToken"] >>

\* the except clauses of verify_auth_token, in order
ExceptClauses ==
    << [catches |-> "SignatureExpired", raises |-> "ExpiredToken"],
       [catches |-> "BadSignature", raises |-> "BadSignatureToken"] >>

RECURSIVE Caught(_, _)
\* the exception the first matching except clause, from the i-th on, raises
Caught(exc, i) ==
    IF i > Len(ExceptClauses) THEN exc
    ELSE IF IsInstance(exc, ExceptClauses[i].catches) THEN ExceptClauses[i].raises
    ELSE Caught(exc, i + 1)

\* User.query.get(id): the row with that primary key, or None
QueryGet(id, table) == IF id \in table THEN [kind |-> "user", id |-> id] ELSE RetNone

\* User.verify_auth_token(token) at time t against the users table
verify_auth_token(token, t, table) ==
    IF token.kind # "jws" THEN Raise("BadSignatureToken")
    ELSE LET got == loads(token, t)
         IN  IF got.exc # "" THEN Raise(Caught(got.exc, 1))
             ELSE QueryGet(got.data.id, table)

InitAuth ==
    /\ photos = <<>>
    /\ GuideIdle /\ CallsIdle /\ AuthIdle

\* authRet is the outcome of the request just served: every other step
\* clears it.
\* a session inserts / deletes a row of the users table
AddUser(u) ==
    /\ u \notin users
    /\ users' = users \cup {u}
    /\ authRet' = [called |-> FALSE]
    /\ UNCHANGED <<now, issued, guideVars, callVars>>
DeleteUser(u) ==
    /\ u \in users
    /\ users' = users \ {u}
    /\ authRet' = [called |-> FALSE]
    /\ UNCHANGED <<now, issued, guideVars, callVars>>

\* a user of the table is handed a token
GenerateAuthToken(u) ==
    /\ u \in users
    /\ Cardinality(issued) < MaxIssued
    /\ issued' = issued \cup {generate_auth_token(u, now)}
    /\ authRet' = [called |-> FALSE]
    /\ UNCHANGED <<now, users, guideVars, callVars>>

\* a client drops its token
ForgetToken(tok) ==
    /\ tok \in issued
    /\ issued' = issued \ {tok}
    /\ authRet' = [called |-> FALSE]
    /\ UNCHANGED <<now, users, guideVars, callVars>>

Tick ==
    /\ now < MaxTime + JWT_TOKEN_EXPIRATION
    /\ now' = now + 1
    /\ authRet' = [called |-> FALSE]
    /\ UNCHANGED <<users, issued, guideVars, callVars>>

\* a request arrives with a token: authRet keeps the token, the time and the
\* users table of the call, and what the call returned or raised
VerifyAuthToken(tok) ==
    /\ authRet' = [called |-> TRUE, token |-> tok, at |-> now, table |-> users,
                   outcome |-> verify_auth_token(tok, now, users)]
    /\ UNCHANGED <<now, users, issued, guideVars, callVars>>

NextAuth ==
    \/ \E u \in UserIds : AddUser(u)
    \/ \E u \in UserIds : DeleteUser(u)
    \/ \E u \in UserIds : GenerateAuthToken(u)
    \/ \E tok \in issued : ForgetToken(tok)
    \/ Tick
    \/ \E tok \in {NoToken, EmptyToken} \cup ForgedTokens \cup issued : VerifyAuthToken(tok)
SpecAuth == InitAuth /\ [][NextAuth]_vars

\* the first three outcomes of verify_auth_token: no token, expired, bad signature
RejectsAsClaimed ==
    LET tok == authRet.token
    IN  /\ tok.kind # "jws" => authRet.outcome = Raise("BadSignatureToken")
        /\ (tok.kind = "jws" /\ tok.sig = "valid" /\ tok.exp < authRet.at) =>
               authRet.outcome = Raise("ExpiredToken")
        /\ (tok.kind = "jws" /\ tok.sig # "valid") => authRet.outcome = Raise("BadSignatureToken")
Accepted == authRet.token.kind = "jws" /\ authRet.token.sig = "valid" /\ authRet.token.exp >= authRet.at

\* C9 as claimed: None or empty raises BadSignatureToken, a well-signed token
\* past its lifetime raises ExpiredToken, any other token with a bad signature
\* raises BadSignatureToken, and a well-signed token within its lifetime
\* returns the user record with the id of the payload.
C9_EveryTokenClassified ==
    authRet.called =>
        /\ RejectsAsClaimed
        /\ Accepted => authRet.outcome = [kind |-> "user", id |-> authRet.token.id]

\* C9 amended: as claimed, except that a well-signed token within its lifetime
\* returns what User.query.get gives for the id of the payload: the user
\* record, or None when the users table has no such row.
C9_ClassifiedUpToLookup ==
    authRet.called =>
        /\ RejectsAsClaimed
        /\ Accepted =>
               authRet.outcome = IF authRet.token.id \in authRet.table
                                 THEN [kind |-> "user", id |-> authRet.token.id]
                                 ELSE RetNone
C9_Witness ==
    /\ authRet.called /\ authRet.token.kind = "jws" /\ authRet.token.sig = "valid"
    /\ authRet.token.exp < authRet.at /\ authRet.outcome = Raise("ExpiredToken")

====
